---- MODULE Spec2Model ----
(***************************************************************************)
(* Model of the connection admission and live-status reconciliation core   *)
(* of src/server.js (TikTok live monitor backend).                         *)
(*                                                                         *)
(* The program is single-threaded JavaScript: a handler runs without       *)
(* interruption up to its next await, and other handlers, timers and       *)
(* connection callbacks run while it is suspended.  Each action below is   *)
(* one such uninterrupted segment.  A database statement is evaluated in   *)
(* the segment that issues it, or in the one that resumes from it, as      *)
(* noted at each action.  The durable store is assumed to accept every     *)
(* statement except an INSERT of a username that already has a row; the    *)
(* steps with a parameter ok also cover a failed write of                  *)
(* saveUserToDatabase.                                                     *)
(***************************************************************************)
EXTENDS Integers, Sequences, FiniteSets, TLC

\* ------------------------------------------------------------------ bounds
Handles == {"a", "b", "c"}
NoHandle == "-"

\* const MAX_CONCURRENT_CONNECTIONS = 25 (server.js:39), scaled down so that
\* the first connection fills the pool and the other usernames meet the limit.
MAX_CONCURRENT_CONNECTIONS == 1

\* slice(0, 10) in the comment and gift handlers (server.js:597, 636)
RecentLimit == 10

\* number of HTTP requests that may be suspended at an await at one time
MaxReq == 2
\* number of checkLiveStatusAccurate runs that may overlap
MaxSweeps == 2
\* number of comment and gift events applied to one userData object
MaxEvents == 11
\* number of distinct timestamps
MaxClock == 1
\* number of HTTP requests (rows of a CSV file included) in one run
MaxRequests == 3
\* number of runs of checkLiveStatusAccurate in one run
MaxSweepRuns == 2
\* number of requests to /api/check-user-detailed in one run
MaxChecks == 2

ReqIds == 1..MaxReq
CheckIds == 1..MaxChecks
SweepIds == 1..MaxSweeps
\* the run of checkLiveStatusAccurate when each run ends before the next starts
OneRun == {1}
\* one userData object per Map entry and per suspended holder of a reference,
\* and the one a step creates
Fresh == Cardinality(Handles) + MaxReq + MaxSweeps + 1
ObjIds == 1..Fresh
NoObj == 0

VARIABLES
    connections,      \* Map username -> WebcastPushConnection, as the state of that object
    orphans,          \* connection objects overwritten in the Map without disconnect()
    connectionQueue,  \* array of usernames waiting for a slot
    liveData,         \* Map username -> userData object (an object id, NoObj = no entry)
    liveOrder,        \* insertion order of the keys of liveData (Map iteration order)
    heap,             \* the userData objects
    users,            \* table users of the database
    req,              \* HTTP requests suspended at an await
    sweeps,           \* runs of checkLiveStatusAccurate
    restoreRows,      \* rows restoreExistingUsers still has to process
    drainPending,     \* a setTimeout(processConnectionQueue) is pending
    postCheck,        \* usernames with a pending setTimeout(checkSingleUserLiveStatus)
    clock,            \* source of the timestamps of comments and gifts
    served,           \* number of HTTP requests and sweep runs started so far
    admittedBy,       \* which caller of connectToTikTokLive created the object in the Map
    checks,           \* requests of /api/check-user-detailed with their test connections
    last              \* what the latest step did: operation, emitted events, response

vars == <<connections, orphans, connectionQueue, liveData, liveOrder, heap, users,
          req, sweeps, restoreRows, drainPending, postCheck, clock, served, admittedBy,
          checks, last>>

\* ------------------------------------------------------------- data shapes
\* createInitialUserData: a fresh object of a connected stream; lastUpdate is
\* the time of the call (new Date(), line 226)
createInitialUserData ==
    [isLive |-> TRUE, totalComments |-> 0, totalGifts |-> 0, totalDiamonds |-> 0,
     recentComments |-> <<>>, recentGifts |-> <<>>, lastUpdate |-> clock]

\* the userData literal of /api/add-user (initially offline)
NewUserData == [createInitialUserData EXCEPT !.isLive = FALSE]

\* a free cell of the heap
Blank ==
    [isLive |-> FALSE, totalComments |-> 0, totalGifts |-> 0, totalDiamonds |-> 0,
     recentComments |-> <<>>, recentGifts |-> <<>>, lastUpdate |-> 0]

NoRow == [present |-> FALSE, status |-> "none"]

NewRow(status) == [NoRow EXCEPT !.present = TRUE, !.status = status]

IdleReq == [op |-> "idle", h |-> NoHandle, pc |-> "idle", obj |-> NoObj]
IdleSweep == [pc |-> "idle", pos |-> 0, h |-> NoHandle, obj |-> NoObj]
\* basic / accurate: the results of the two probes ("" until the probe returns);
\* test1 / test2: the test connections of checkSingleUserLiveStatus and of
\* checkSingleUserLiveStatusAccurate
IdleCheck == [pc |-> "idle", h |-> NoHandle, basic |-> "", accurate |-> "",
              test1 |-> "none", test2 |-> "none"]

NoEmit == {}
\* op: the operation, h: its username, arg: its inputs, emits: the events sent with
\* io.emit, opens: connections created, res / pos: the response of a request
Done(op, h, arg, emits, opens, res, pos) ==
    [op |-> op, h |-> h, arg |-> arg, emits |-> emits, opens |-> opens, res |-> res,
     pos |-> pos]

\* --------------------------------------------------------------- helpers
ActiveSet(conns) == {h \in Handles : conns[h] # "none"}
\* connections.size
Size(conns) == Cardinality(ActiveSet(conns))

InSeq(s, h) == \E i \in 1..Len(s) : s[i] = h
IndexOf(s, h) == CHOOSE i \in 1..Len(s) : s[i] = h /\ \A j \in 1..(i - 1) : s[j] # h
RemoveAt(s, i) == SubSeq(s, 1, i - 1) \o SubSeq(s, i + 1, Len(s))
\* indexOf + splice(index, 1): removes the first occurrence only
RemoveFirst(s, h) == IF InSeq(s, h) THEN RemoveAt(s, IndexOf(s, h)) ELSE s

\* Map.set / Map.delete on the key order of liveData
OrderSet(order, h) == IF InSeq(order, h) THEN order ELSE Append(order, h)
OrderDelete(order, h) == RemoveFirst(order, h)
\* a live Map iterator does not skip or repeat entries when one before it is deleted
SweepsAfterDelete(sw, order, h) ==
    [s \in SweepIds |->
        IF InSeq(order, h) /\ IndexOf(order, h) <= sw[s].pos
        THEN [sw[s] EXCEPT !.pos = @ - 1] ELSE sw[s]]

HandleSeq == <<"a", "b", "c">>

\* The places that hold a reference to a userData object, in a fixed order: the
\* entries of liveData, the suspended requests, the sweeps.
RefIds == 1..(Len(HandleSeq) + MaxReq + MaxSweeps)
RefAt(ld, rq, sw, i) ==
    IF i <= Len(HandleSeq) THEN ld[HandleSeq[i]]
    ELSE IF i <= Len(HandleSeq) + MaxReq THEN rq[i - Len(HandleSeq)].obj
    ELSE sw[i - Len(HandleSeq) - MaxReq].obj
\* Object identity carries no information beyond which references are equal: an
\* object is named by the first place that refers to it, and an object no place
\* refers to is dropped.
FirstRef(ld, rq, sw, o) ==
    CHOOSE i \in RefIds :
        RefAt(ld, rq, sw, i) = o /\ \A j \in 1..(i - 1) : RefAt(ld, rq, sw, j) # o
Renamed(ld, rq, sw, o) == IF o = NoObj THEN NoObj ELSE FirstRef(ld, rq, sw, o)

\* saveUserToDatabase: INSERT ... ON CONFLICT (username) DO UPDATE; a new row gets
\* the column default status 'monitoring'.  The columns it writes are read only
\* by the SELECT of restoreExistingUsers at startup, so the table keeps the
\* status column alone.
saveUserToDatabase(tbl, h, ud) ==
    IF tbl[h].present THEN tbl ELSE [tbl EXCEPT ![h] = [present |-> TRUE, status |-> "monitoring"]]

\* the table after a call of saveUserToDatabase whose statement succeeded (ok)
\* or failed: the catch of lines 257-259 logs the error and the table is as it was
SaveOutcome(tbl, h, ud, ok) == IF ok THEN saveUserToDatabase(tbl, h, ud) ELSE tbl

\* a variant of EmitsAfterSave where a failed write throws into the catch of the
\* handler and the statements behind the await are skipped
EmitsAfterSaveThrows(ok, emits) == IF ok THEN emits ELSE {}

\* the io.emit calls behind `await saveUserToDatabase(...)`: the promise never
\* rejects (lines 257-259), so they run whether the write succeeded or not
EmitsAfterSave(ok, emits) == emits

\* the inputs of a step, with a mark when its durable write failed
ArgOf(arg, ok) == IF ok THEN arg ELSE Append(arg, "write-failed")

\* UPDATE users SET status = ... WHERE username = h
UpdateStatus(tbl, h, status) ==
    IF tbl[h].present THEN [tbl EXCEPT ![h].status = status] ELSE tbl

\* connectToTikTokLive: creates the connection object, starts connect() without
\* awaiting it, registers the handlers and stores the object in the Map
\* (connections.set).  It returns the object; the outcome of connect() arrives
\* later as ConnectSuccess or ConnectFail.
ConnSet(conns, h) == [conns EXCEPT ![h] = "connecting"]
connectToTikTokLive(conns, h) == ConnSet(conns, h)
\* the object the Map held before is not disconnected: it stays alive
OrphansAfterConnect(orph, conns, h) ==
    IF conns[h] \in {"connecting", "open"}
    THEN [orph EXCEPT ![h] = @ \cup {conns[h]}] ELSE orph

\* ------------------------------------------------------------ probes
ProbeResults == {"live", "offline", "unknown"}

\* checkLiveWithAlternatives: direct API first, then web scraping; an error of
\* a method is caught and the next one is tried; the final result is never null
checkLiveWithAlternatives(direct, scraping) ==
    IF direct = "live" THEN TRUE
    ELSE IF scraping = "live" THEN TRUE
    ELSE FALSE

\* ------------------------------------------------------------ state update
\* liveData.set(h, o)
LdSet(ld, h, o) == [ld EXCEPT ![h] = o]
\* liveData.delete(h)
LdDelete(ld, h) == [ld EXCEPT ![h] = NoObj]

FreeReq(rq) == CHOOSE i \in ReqIds : rq[i].op = "idle" /\ \A j \in ReqIds : j < i => rq[j].op # "idle"
HasFreeReq(rq) == \E i \in ReqIds : rq[i].op = "idle"

\* the new values of the memory of the process
Mem(ld, ord, hp, rq, sw) ==
    /\ liveData' = [h \in Handles |-> Renamed(ld, rq, sw, ld[h])]
    /\ liveOrder' = ord
    /\ req' = [i \in ReqIds |-> [rq[i] EXCEPT !.obj = Renamed(ld, rq, sw, @)]]
    /\ sweeps' = [s \in SweepIds |-> [sw[s] EXCEPT !.obj = Renamed(ld, rq, sw, @)]]
    /\ heap' = [n \in ObjIds |->
                  IF n \in RefIds /\ RefAt(ld, rq, sw, n) # NoObj
                        /\ FirstRef(ld, rq, sw, RefAt(ld, rq, sw, n)) = n
                  THEN hp[RefAt(ld, rq, sw, n)]
                  ELSE Blank]

MemDelete(h, rq) ==
    Mem(LdDelete(liveData, h), OrderDelete(liveOrder, h), heap, rq,
        SweepsAfterDelete(sweeps, liveOrder, h))

Serving == restoreRows = <<>>

\* ------------------------------------------------------------ /api/add-user
\* lines 808-853: resumes from the duplicate check (SELECT); a new username gets
\* its liveData entry (line 852) and the INSERT of lines 856-872 is issued
AddUserBegin(h) ==
    LET o == Fresh
    IN  /\ Serving
        /\ served.requests < MaxRequests
        /\ served' = [served EXCEPT !.requests = @ + 1]
        /\ IF users[h].present
           THEN /\ last' = Done("add-user", h, <<>>, NoEmit, 0, "AlreadyTracked", 0)
                /\ UNCHANGED <<req, liveData, liveOrder, heap, sweeps>>
           ELSE /\ HasFreeReq(req)
                /\ Mem(LdSet(liveData, h, o), OrderSet(liveOrder, h),
                       [heap EXCEPT ![o] = NewUserData],
                       [req EXCEPT ![FreeReq(req)] =
                              [op |-> "add", h |-> h, pc |-> "selected", obj |-> o]],
                       sweeps)
                /\ last' = Done("add-user-select", h, <<>>, NoEmit, 0, "", 0)
        /\ UNCHANGED <<connections, orphans, connectionQueue, users, restoreRows,
                       drainPending, postCheck, clock>>
        /\ UNCHANGED <<admittedBy, checks>>

\* lines 856-877: resumes from the INSERT and checks the connection limit.  A
\* duplicate key makes the INSERT throw into the catch of lines 983-990, which
\* deletes the liveData entry of the username.
AddUserInsert(i) ==
    LET h == req[i].h
        full == Size(connections) >= MAX_CONCURRENT_CONNECTIONS
    IN  /\ req[i].op = "add" /\ req[i].pc = "selected"
        /\ IF users[h].present
           THEN /\ MemDelete(h, [req EXCEPT ![i] = IdleReq])
                /\ last' = Done("add-user", h, <<>>, NoEmit, 0, "error", 0)
                /\ UNCHANGED users
           ELSE /\ Mem(liveData, liveOrder, heap,
                       [req EXCEPT ![i].pc = IF full THEN "waiting" ELSE "probing"],
                       sweeps)
                /\ users' = [users EXCEPT ![h] = NewRow("monitoring")]
                /\ last' = Done("add-user-insert", h, <<>>, NoEmit, 0, "", 0)
        /\ UNCHANGED <<connections, orphans, connectionQueue, restoreRows,
                       drainPending, postCheck, clock>>
        /\ UNCHANGED <<served, admittedBy, checks>>

\* a variant of AddUserQueue that puts the username at the head of the queue
AddUserQueueAtHead(i) ==
    LET h == req[i].h
        q == <<h>> \o connectionQueue
    IN  /\ req[i].op = "add" /\ req[i].pc = "waiting"
        /\ users' = UpdateStatus(users, h, "waiting")
        /\ connectionQueue' = q
        /\ Mem(liveData, liveOrder, heap, [req EXCEPT ![i] = IdleReq], sweeps)
        /\ last' = Done("add-user", h, <<>>, {"live-data-update"}, 0, "waiting", Len(q))
        /\ UNCHANGED <<connections, orphans, restoreRows, drainPending, postCheck, clock>>
        /\ UNCHANGED <<served, admittedBy, checks>>

\* lines 878-892: resumes from UPDATE status = 'waiting', then queues the username
AddUserQueue(i) ==
    LET h == req[i].h
        q == Append(connectionQueue, h)
    IN  /\ req[i].op = "add" /\ req[i].pc = "waiting"
        /\ users' = UpdateStatus(users, h, "waiting")
        /\ connectionQueue' = q
        /\ Mem(liveData, liveOrder, heap, [req EXCEPT ![i] = IdleReq], sweeps)
        /\ last' = Done("add-user", h, <<>>, {"live-data-update"}, 0, "waiting", Len(q))
        /\ UNCHANGED <<connections, orphans, restoreRows, drainPending, postCheck, clock>>
        /\ UNCHANGED <<served, admittedBy, checks>>

\* lines 895-951: resumes from checkLiveWithAlternatives; both branches call
\* connectToTikTokLive without looking at connections.size again
AddUserProbed(i, direct, scraping) ==
    LET h == req[i].h
        o == req[i].obj
        isLive == checkLiveWithAlternatives(direct, scraping)
        hp == IF isLive THEN [heap EXCEPT ![o].isLive = TRUE] ELSE heap
        rq == [req EXCEPT ![i] = IdleReq]
    IN  /\ req[i].op = "add" /\ req[i].pc = "probing"
        /\ IF isLive
           THEN /\ Mem(LdSet(liveData, h, o), OrderSet(liveOrder, h), hp, rq, sweeps)
                /\ users' = saveUserToDatabase(users, h, hp[o])
           ELSE /\ Mem(liveData, liveOrder, hp, rq, sweeps)
                /\ UNCHANGED users
        /\ connections' = connectToTikTokLive(connections, h)
        /\ orphans' = OrphansAfterConnect(orphans, connections, h)
        /\ admittedBy' = [admittedBy EXCEPT ![h] = "add-user"]
        /\ last' = Done("add-user", h, <<direct, scraping>>,
                        {"user-connected", "live-data-update"}, 1,
                        "monitoring", 0)
        /\ UNCHANGED <<connectionQueue, restoreRows, drainPending, postCheck, clock>>
        /\ UNCHANGED <<served, checks>>

\* --------------------------------------------------------- /api/remove-user
\* a variant of RemoveUserBegin that schedules a queue run for an unknown username
RemoveUserBeginDrains(h) ==
    /\ Serving
    /\ served.requests < MaxRequests
    /\ served' = [served EXCEPT !.requests = @ + 1]
    /\ IF ~users[h].present
       THEN /\ last' = Done("remove-user", h, <<>>, NoEmit, 0, "NotFound", 0)
            /\ drainPending' = TRUE
            /\ UNCHANGED <<req, users>>
       ELSE /\ HasFreeReq(req)
            /\ users' = [users EXCEPT ![h] = NoRow]
            /\ req' = [req EXCEPT ![FreeReq(req)] =
                          [op |-> "remove", h |-> h, pc |-> "deleted", obj |-> NoObj]]
            /\ last' = Done("remove-user-delete", h, <<>>, NoEmit, 0, "", 0)
            /\ UNCHANGED drainPending
    /\ UNCHANGED <<connections, orphans, connectionQueue, liveData, liveOrder, heap,
                   sweeps, restoreRows, postCheck, clock>>
    /\ UNCHANGED <<admittedBy, checks>>

\* lines 994-1004: DELETE ... RETURNING
RemoveUserBegin(h) ==
    /\ Serving
    /\ served.requests < MaxRequests
    /\ served' = [served EXCEPT !.requests = @ + 1]
    /\ IF ~users[h].present
       THEN /\ last' = Done("remove-user", h, <<>>, NoEmit, 0, "NotFound", 0)
            /\ UNCHANGED <<req, users>>
       ELSE /\ HasFreeReq(req)
            /\ users' = [users EXCEPT ![h] = NoRow]
            /\ req' = [req EXCEPT ![FreeReq(req)] =
                          [op |-> "remove", h |-> h, pc |-> "deleted", obj |-> NoObj]]
            /\ last' = Done("remove-user-delete", h, <<>>, NoEmit, 0, "", 0)
    /\ UNCHANGED <<connections, orphans, connectionQueue, liveData, liveOrder, heap,
                   sweeps, restoreRows, drainPending, postCheck, clock>>
    /\ UNCHANGED <<admittedBy, checks>>

\* a variant of RemoveUserFinish that schedules no queue run
RemoveUserFinishNoDrain(i) ==
    LET h == req[i].h
    IN  /\ req[i].op = "remove" /\ req[i].pc = "deleted"
        /\ connections' = [connections EXCEPT ![h] = "none"]
        /\ admittedBy' = [admittedBy EXCEPT ![h] = "none"]
        /\ MemDelete(h, [req EXCEPT ![i] = IdleReq])
        /\ connectionQueue' = RemoveFirst(connectionQueue, h)
        /\ last' = Done("remove-user", h, <<>>, {"user-removed"}, 0, "removed", 0)
        /\ UNCHANGED <<orphans, users, restoreRows, postCheck, clock, drainPending>>
        /\ UNCHANGED <<served, checks>>

\* a variant of RemoveUserFinish that leaves the connection in the Map
RemoveUserFinishKeepsSlot(i) ==
    LET h == req[i].h
    IN  /\ req[i].op = "remove" /\ req[i].pc = "deleted"
        /\ MemDelete(h, [req EXCEPT ![i] = IdleReq])
        /\ connectionQueue' = RemoveFirst(connectionQueue, h)
        /\ drainPending' = TRUE
        /\ last' = Done("remove-user", h, <<>>, {"user-removed"}, 0, "removed", 0)
        /\ UNCHANGED <<connections, admittedBy, orphans, users, restoreRows, postCheck, clock>>
        /\ UNCHANGED <<served, checks>>

\* lines 1006-1033: disconnect, forget the username, schedule a queue run
RemoveUserFinish(i) ==
    LET h == req[i].h
    IN  /\ req[i].op = "remove" /\ req[i].pc = "deleted"
        /\ connections' = [connections EXCEPT ![h] = "none"]
        /\ admittedBy' = [admittedBy EXCEPT ![h] = "none"]
        /\ MemDelete(h, [req EXCEPT ![i] = IdleReq])
        /\ connectionQueue' = RemoveFirst(connectionQueue, h)
        /\ drainPending' = TRUE
        /\ last' = Done("remove-user", h, <<>>, {"user-removed"}, 0, "removed", 0)
        /\ UNCHANGED <<orphans, users, restoreRows, postCheck, clock>>
        /\ UNCHANGED <<served, checks>>

\* ---------------------------------------------------------- /api/upload-csv
\* lines 1069-1079: the duplicate check of one row of the file
CsvBegin(h) ==
    /\ Serving
    /\ served.requests < MaxRequests
    /\ served' = [served EXCEPT !.requests = @ + 1]
    /\ IF users[h].present
       THEN /\ last' = Done("upload-csv", h, <<>>, NoEmit, 0, "AlreadyTracked", 0)
            /\ UNCHANGED req
       ELSE /\ HasFreeReq(req)
            /\ req' = [req EXCEPT ![FreeReq(req)] =
                          [op |-> "csv", h |-> h, pc |-> "selected", obj |-> NoObj]]
            /\ last' = Done("upload-csv-select", h, <<>>, NoEmit, 0, "", 0)
    /\ UNCHANGED <<connections, orphans, connectionQueue, liveData, liveOrder, heap,
                   users, sweeps, restoreRows, drainPending, postCheck, clock>>
    /\ UNCHANGED <<admittedBy, checks>>

\* lines 1081-1082 and 1091-1095: resumes from the SELECT; at the limit the
\* INSERT of lines 1082-1085 is issued, otherwise the username is connected
\* (no row is written and liveData gets no entry)
CsvRow(i) ==
    LET h == req[i].h
        full == Size(connections) >= MAX_CONCURRENT_CONNECTIONS
    IN  /\ req[i].op = "csv" /\ req[i].pc = "selected"
        /\ IF full
           THEN /\ Mem(liveData, liveOrder, heap, [req EXCEPT ![i].pc = "inserting"], sweeps)
                /\ last' = Done("upload-csv-limit", h, <<>>, NoEmit, 0, "", 0)
                /\ UNCHANGED <<connections, orphans, admittedBy>>
           ELSE /\ Mem(liveData, liveOrder, heap, [req EXCEPT ![i] = IdleReq], sweeps)
                /\ connections' = connectToTikTokLive(connections, h)
                /\ orphans' = OrphansAfterConnect(orphans, connections, h)
                /\ admittedBy' = [admittedBy EXCEPT ![h] = "upload-csv"]
                /\ last' = Done("upload-csv", h, <<>>, NoEmit, 1, "monitoring", 0)
        /\ UNCHANGED <<users, connectionQueue, restoreRows, drainPending, postCheck, clock>>
        /\ UNCHANGED <<served, checks>>

\* lines 1082-1090: resumes from INSERT ... status 'waiting' and queues the
\* username (a duplicate key throws into the catch of lines 1098-1101); the
\* response counts the username as waiting and carries no queue position
CsvQueue(i) ==
    LET h == req[i].h
    IN  /\ req[i].op = "csv" /\ req[i].pc = "inserting"
        /\ Mem(liveData, liveOrder, heap, [req EXCEPT ![i] = IdleReq], sweeps)
        /\ IF users[h].present
           THEN /\ last' = Done("upload-csv", h, <<>>, NoEmit, 0, "error", 0)
                /\ UNCHANGED <<users, connectionQueue>>
           ELSE /\ users' = [users EXCEPT ![h] = NewRow("waiting")]
                /\ connectionQueue' = Append(connectionQueue, h)
                /\ last' = Done("upload-csv", h, <<>>, NoEmit, 0, "waiting", 0)
        /\ UNCHANGED <<connections, orphans, restoreRows, drainPending, postCheck, clock>>
        /\ UNCHANGED <<served, admittedBy, checks>>

\* a variant of processConnectionQueue that promotes two entries in one run
processConnectionQueueTwice(byTimeout) ==
    LET h == Head(connectionQueue)
        two == Len(connectionQueue) >= 2
        g == IF two THEN connectionQueue[2] ELSE h
    IN  /\ byTimeout => drainPending
        /\ IF connectionQueue = <<>> \/ Size(connections) >= MAX_CONCURRENT_CONNECTIONS
           THEN /\ drainPending' = (drainPending /\ ~byTimeout)
                /\ last' = Done("drain", NoHandle, <<byTimeout>>, NoEmit, 0, "skip", 0)
                /\ UNCHANGED <<connections, orphans, connectionQueue, users, admittedBy>>
           ELSE /\ connectionQueue' = IF two THEN Tail(Tail(connectionQueue))
                                      ELSE Tail(connectionQueue)
                /\ connections' = connectToTikTokLive(connectToTikTokLive(connections, h), g)
                /\ orphans' = OrphansAfterConnect(orphans, connections, h)
                /\ admittedBy' = [admittedBy EXCEPT ![h] = "queue", ![g] = "queue"]
                /\ users' = UpdateStatus(UpdateStatus(users, h, "monitoring"), g, "monitoring")
                /\ drainPending' = TRUE
                /\ last' = Done("drain", h, <<byTimeout>>, {"user-connected"},
                                IF two THEN 2 ELSE 1, "connected", 0)
        /\ UNCHANGED <<liveData, liveOrder, heap, req, sweeps, restoreRows, postCheck,
                       clock>>
        /\ UNCHANGED <<served, checks>>

\* a variant of processConnectionQueue without the check of connections.size
processConnectionQueueNoLimit(byTimeout) ==
    LET h == Head(connectionQueue)
    IN  /\ byTimeout => drainPending
        /\ IF connectionQueue = <<>>
           THEN /\ drainPending' = (drainPending /\ ~byTimeout)
                /\ last' = Done("drain", NoHandle, <<byTimeout>>, NoEmit, 0, "skip", 0)
                /\ UNCHANGED <<connections, orphans, connectionQueue, users, admittedBy>>
           ELSE /\ connectionQueue' = Tail(connectionQueue)
                /\ connections' = connectToTikTokLive(connections, h)
                /\ orphans' = OrphansAfterConnect(orphans, connections, h)
                /\ admittedBy' = [admittedBy EXCEPT ![h] = "queue"]
                /\ users' = UpdateStatus(users, h, "monitoring")
                /\ drainPending' = TRUE
                /\ last' = Done("drain", h, <<byTimeout>>, {"user-connected"}, 1, "connected", 0)
        /\ UNCHANGED <<liveData, liveOrder, heap, req, sweeps, restoreRows, postCheck,
                       clock>>
        /\ UNCHANGED <<served, checks>>

\* ------------------------------------------------- processConnectionQueue
\* lines 166-198, run by the 30 s interval (line 201) or by a setTimeout.  The
\* catch of lines 192-197 is entered only if connectToTikTokLive or the UPDATE
\* throws; a rejected connect() does not reach it (see ConnectFail).
processConnectionQueue(byTimeout) ==
    LET h == Head(connectionQueue)
    IN  /\ byTimeout => drainPending
        /\ IF connectionQueue = <<>> \/ Size(connections) >= MAX_CONCURRENT_CONNECTIONS
           THEN /\ drainPending' = (drainPending /\ ~byTimeout)
                /\ last' = Done("drain", NoHandle, <<byTimeout>>, NoEmit, 0, "skip", 0)
                /\ UNCHANGED <<connections, orphans, connectionQueue, users, admittedBy>>
           ELSE /\ connectionQueue' = Tail(connectionQueue)
                /\ connections' = connectToTikTokLive(connections, h)
                /\ orphans' = OrphansAfterConnect(orphans, connections, h)
                /\ admittedBy' = [admittedBy EXCEPT ![h] = "queue"]
                /\ users' = UpdateStatus(users, h, "monitoring")
                /\ drainPending' = TRUE
                /\ last' = Done("drain", h, <<byTimeout>>, {"user-connected"}, 1, "connected", 0)
        /\ UNCHANGED <<liveData, liveOrder, heap, req, sweeps, restoreRows, postCheck,
                       clock>>
        /\ UNCHANGED <<served, checks>>

\* ------------------------------------------- callbacks of a connection object
\* the connection object a callback belongs to: the one in the Map or an orphan
Sources == {"map", "orphan"}
Is(h, src, st) == IF src = "map" THEN connections[h] = st ELSE st \in orphans[h]
Becomes(h, src, from, to) ==
    IF src = "map"
    THEN /\ connections' = [connections EXCEPT ![h] = to]
         /\ UNCHANGED orphans
    ELSE /\ orphans' = [orphans EXCEPT ![h] = (@ \ {from}) \cup ({to} \cap {"open"})]
         /\ UNCHANGED connections

\* lines 560-576: connect() resolved
ConnectSuccess(h, src) ==
    LET o == Fresh
    IN  /\ Is(h, src, "connecting")
        /\ Becomes(h, src, "connecting", "open")
        /\ Mem(LdSet(liveData, h, o), OrderSet(liveOrder, h),
               [heap EXCEPT ![o] = createInitialUserData], req, sweeps)
        /\ users' = saveUserToDatabase(users, h, createInitialUserData)
        /\ postCheck' = postCheck \cup {h}
        /\ last' = Done("connect-success", h, <<src>>, {"user-connected", "live-data-update"}, 0, "", 0)
        /\ UNCHANGED <<connectionQueue, restoreRows, drainPending, clock>>
        /\ UNCHANGED <<served, admittedBy, checks>>

\* lines 577-582: connect() rejected; the rethrow ends in the process-wide
\* unhandledRejection handler (line 1449), not in any caller
ConnectFail(h, src) ==
    /\ Is(h, src, "connecting")
    /\ Becomes(h, src, "connecting", "failed")
    /\ MemDelete(h, req)
    /\ last' = Done("connect-fail", h, <<src>>, {"user-error"}, 0, "", 0)
    /\ UNCHANGED <<connectionQueue, users, restoreRows, drainPending, postCheck, clock>>
    /\ UNCHANGED <<served, admittedBy, checks>>

Min(x, y) == IF x <= y THEN x ELSE y
\* a variant of PushRecent that puts the new entry behind the others
PushRecentAtEnd(list, e) == SubSeq(list \o <<e>>, 1, Min(RecentLimit, Len(list) + 1))

\* unshift(e) followed by slice(0, 10)
PushRecent(list, e) == SubSeq(<<e>> \o list, 1, Min(RecentLimit, Len(list) + 1))

\* liveData.get(h), or a fresh createInitialUserData when there is no entry
Target(h) == IF liveData[h] # NoObj THEN liveData[h] ELSE Fresh
Current(h) == IF liveData[h] # NoObj THEN heap[liveData[h]] ELSE createInitialUserData

\* lines 585-614: the comment handler
ApplyComment(ud, now) ==
    [ud EXCEPT !.totalComments = @ + 1,
               !.recentComments = PushRecent(@, [timestamp |-> now]),
               !.lastUpdate = now]

CommentStored(h, src, ok) ==
    LET o == Target(h)
        ud == ApplyComment(Current(h), clock)
    IN  /\ Is(h, src, "open")
        /\ Current(h).totalComments + Current(h).totalGifts < MaxEvents
        /\ Mem(LdSet(liveData, h, o), OrderSet(liveOrder, h), [heap EXCEPT ![o] = ud],
               req, sweeps)
        /\ users' = SaveOutcome(users, h, ud, ok)
        /\ last' = Done("comment", h, ArgOf(<<src>>, ok),
                        EmitsAfterSave(ok, {"new-comment", "live-data-update"}), 0, "", 0)
        /\ UNCHANGED <<connections, orphans, connectionQueue, restoreRows, drainPending,
                       postCheck, clock>>
        /\ UNCHANGED <<served, admittedBy, checks>>

\* the comment handler when the durable store accepts the write
Comment(h, src) == CommentStored(h, src, TRUE)

\* data.giftDetails?.diamond_count || data.repeatCount || 1, with 0 for a value
\* that is 0 or missing
DiamondValue(diamond_count, repeatCount) ==
    IF diamond_count # 0 THEN diamond_count
    ELSE IF repeatCount # 0 THEN repeatCount
    ELSE 1

\* a variant of ApplyGift that counts the repeat count as well as the diamonds
ApplyGiftTimesRepeat(ud, diamond_count, repeatCount, now) ==
    [ud EXCEPT !.totalGifts = @ + 1,
               !.totalDiamonds = @ + DiamondValue(diamond_count, repeatCount) + repeatCount,
               !.recentGifts = PushRecent(@, [timestamp |-> now,
                                   diamonds |-> DiamondValue(diamond_count, repeatCount)]),
               !.lastUpdate = now]

\* lines 617-649: the gift handler
ApplyGift(ud, diamond_count, repeatCount, now) ==
    [ud EXCEPT !.totalGifts = @ + 1,
               !.totalDiamonds = @ + DiamondValue(diamond_count, repeatCount),
               !.recentGifts = PushRecent(@, [timestamp |-> now,
                                   diamonds |-> DiamondValue(diamond_count, repeatCount)]),
               !.lastUpdate = now]

GiftStored(h, src, diamond_count, repeatCount, ok) ==
    LET o == Target(h)
        ud == ApplyGift(Current(h), diamond_count, repeatCount, clock)
    IN  /\ Is(h, src, "open")
        /\ Current(h).totalComments + Current(h).totalGifts < MaxEvents
        /\ Mem(LdSet(liveData, h, o), OrderSet(liveOrder, h), [heap EXCEPT ![o] = ud],
               req, sweeps)
        /\ users' = SaveOutcome(users, h, ud, ok)
        /\ last' = Done("gift", h, ArgOf(<<src, diamond_count, repeatCount>>, ok),
                        EmitsAfterSave(ok, {"new-gift", "live-data-update"}), 0, "", 0)
        /\ UNCHANGED <<connections, orphans, connectionQueue, restoreRows, drainPending,
                       postCheck, clock>>
        /\ UNCHANGED <<served, admittedBy, checks>>

\* the gift handler when the durable store accepts the write
Gift(h, src, diamond_count, repeatCount) ==
    GiftStored(h, src, diamond_count, repeatCount, TRUE)

\* time passes between two events
Tick ==
    /\ clock < MaxClock
    /\ clock' = clock + 1
    /\ last' = Done("tick", NoHandle, <<>>, NoEmit, 0, "", 0)
    /\ UNCHANGED <<connections, orphans, connectionQueue, liveData, liveOrder, heap,
                   users, req, sweeps, restoreRows, drainPending, postCheck, served,
                   admittedBy, checks>>

\* marks the entry offline if there is one (lines 531-539 and 687-695)
MarkOffline(h) ==
    IF liveData[h] # NoObj
    THEN /\ Mem(liveData, liveOrder,
                [heap EXCEPT ![liveData[h]].isLive = FALSE,
                             ![liveData[h]].lastUpdate = clock],
                req, sweeps)
         /\ users' = saveUserToDatabase(users, h,
                        [heap[liveData[h]] EXCEPT !.isLive = FALSE, !.lastUpdate = clock])
    ELSE UNCHANGED <<liveData, liveOrder, heap, req, sweeps, users>>

\* lines 684-700: the stream ended; the object stays in the Map
StreamDisconnected(h, src) ==
    /\ Is(h, src, "open")
    /\ Becomes(h, src, "open", "ended")
    /\ MarkOffline(h)
    /\ last' = Done("disconnected", h, <<src>>, {"user-disconnected"}, 0, "", 0)
    /\ UNCHANGED <<connectionQueue, restoreRows, drainPending, postCheck, clock>>
    /\ UNCHANGED <<served, admittedBy, checks>>

\* lines 572-575 and 513-550: checkSingleUserLiveStatus, 5 s after a successful
\* connect; only 'LIVE has ended' / 'UserOfflineError' changes anything
PostConnectCheck(h, result) ==
    /\ h \in postCheck
    /\ postCheck' = postCheck \ {h}
    /\ IF result = "offline"
       THEN /\ MarkOffline(h)
            /\ last' = Done("post-connect-check", h, <<result>>,
                            IF liveData[h] # NoObj
                            THEN {"user-disconnected", "live-data-update"} ELSE NoEmit,
                            0, result, 0)
       ELSE /\ UNCHANGED <<liveData, liveOrder, heap, req, sweeps, users>>
            /\ last' = Done("post-connect-check", h, <<result>>, NoEmit, 0, result, 0)
    /\ UNCHANGED <<connections, orphans, connectionQueue, restoreRows, drainPending, clock>>
    /\ UNCHANGED <<served, admittedBy, checks>>

\* ------------------------------------------------ /api/check-user-detailed
\* messages of a rejected connect(); the timer of line 465 rejects with
\* 'Connection timeout'.  A message is taken to include a pattern when it is
\* that pattern.
ConnectErrors == {"LIVE has ended", "User is not live", "ECONNRESET"}
TimeoutError == "Connection timeout"

\* line 528: the messages checkSingleUserLiveStatus takes for offline
BasicOfflineErrors == {"LIVE has ended", "UserOfflineError"}

\* lines 482-495: const offlineErrors of checkSingleUserLiveStatusAccurate
offlineErrors ==
    {"LIVE has ended", "UserOfflineError", "User is not live", "Room not found",
     "Connection timeout", "Failed to retrieve the initial room data",
     "Failed to connect to websocket", "Unable to retrieve room data",
     "Room is not available", "Stream is not available", "User does not exist",
     "Private account or user not found"}

\* the value the catch of lines 527-549 returns: false or null
BasicResultOf(message) == IF message \in BasicOfflineErrors THEN "offline" ELSE "unknown"

\* the value the catch of lines 478-509 returns: false or null
AccurateResultOf(message) == IF message \in offlineErrors THEN "offline" ELSE "unknown"

\* line 1157: accurateResult !== null ? accurateResult : basicResult
FinalStatus(basic, accurate) == IF accurate # "unknown" THEN accurate ELSE basic

FreeCheck == CHOOSE c \in CheckIds : checks[c].pc = "idle" /\ \A d \in CheckIds : d < c => checks[d].pc # "idle"

UnchangedByCheck ==
    UNCHANGED <<connections, orphans, connectionQueue, restoreRows, drainPending,
                postCheck, clock, served, admittedBy>>

\* lines 1131-1144 and 513-521: the request starts checkSingleUserLiveStatus,
\* which creates its test connection and awaits connect()
CheckBegin(h) ==
    /\ Serving
    /\ \E c \in CheckIds : checks[c].pc = "idle"
    /\ checks' = [checks EXCEPT ![FreeCheck] =
                     [IdleCheck EXCEPT !.pc = "basic", !.h = h, !.test1 = "connecting"]]
    /\ last' = Done("check-basic-start", h, <<>>, NoEmit, 0, "", 0)
    /\ UNCHANGED <<liveData, liveOrder, heap, req, sweeps, users>>
    /\ UnchangedByCheck

\* lines 521-549, 1147 and 445-468: connect() of the first test connection
\* settles, checkSingleUserLiveStatus returns, and the request starts
\* checkSingleUserLiveStatusAccurate, which creates the second test connection
\* and awaits the race of connect() and the 10 s timer
CheckBasicDone(c, outcome) ==
    LET h == checks[c].h
        r == IF outcome = "connected" THEN "live" ELSE BasicResultOf(outcome)
    IN  /\ checks[c].pc = "basic"
        /\ checks' = [checks EXCEPT ![c].pc = "race", ![c].basic = r,
                                    ![c].test1 = IF outcome = "connected"
                                                 THEN "closed" ELSE "failed",
                                    ![c].test2 = "connecting"]
        /\ IF r = "offline"
           THEN /\ MarkOffline(h)
                /\ last' = Done("check-basic", h, <<outcome>>,
                                IF liveData[h] # NoObj
                                THEN {"user-disconnected", "live-data-update"} ELSE NoEmit,
                                0, r, 0)
           ELSE /\ UNCHANGED <<liveData, liveOrder, heap, req, sweeps, users>>
                /\ last' = Done("check-basic", h, <<outcome>>, NoEmit, 0, r, 0)
        /\ UnchangedByCheck

\* line 468: connect() wins the race; the 2 s wait of line 471 starts
CheckAccurateConnected(c) ==
    /\ checks[c].pc = "race" /\ checks[c].test2 = "connecting"
    /\ checks' = [checks EXCEPT ![c].pc = "hold", ![c].test2 = "open"]
    /\ last' = Done("check-accurate-connected", checks[c].h, <<>>, NoEmit, 0, "", 0)
    /\ UNCHANGED <<liveData, liveOrder, heap, req, sweeps, users>>
    /\ UnchangedByCheck

\* lines 471-476 and 1149-1159: the wait is over, the test connection is
\* disconnected, the probe returns true and the request answers
CheckAccurateReturn(c) ==
    /\ checks[c].pc = "hold"
    /\ checks' = [checks EXCEPT ![c].pc = "done", ![c].accurate = "live",
                                ![c].test2 = "closed"]
    /\ last' = Done("check-user-detailed", checks[c].h, <<"connected">>, NoEmit, 0,
                    FinalStatus(checks[c].basic, "live"), 0)
    /\ UNCHANGED <<liveData, liveOrder, heap, req, sweeps, users>>
    /\ UnchangedByCheck

\* lines 478-509 and 1149-1159: the race is lost to a rejection, of connect()
\* with one of its messages or of the timer with 'Connection timeout'; the
\* probe returns false or null and the request answers.  After a timeout the
\* connect() of the test connection is still pending.
CheckAccurateError(c, message) ==
    /\ checks[c].pc = "race" /\ checks[c].test2 = "connecting"
    /\ checks' = [checks EXCEPT ![c].pc = "done",
                                ![c].accurate = AccurateResultOf(message),
                                ![c].test2 = IF message = TimeoutError
                                             THEN "connecting" ELSE "failed"]
    /\ last' = Done("check-user-detailed", checks[c].h, <<message>>, NoEmit, 0,
                    FinalStatus(checks[c].basic, AccurateResultOf(message)), 0)
    /\ UNCHANGED <<liveData, liveOrder, heap, req, sweeps, users>>
    /\ UnchangedByCheck

\* line 463: the connect() the timer has overtaken settles after the probe has
\* returned; nothing refers to the test connection any more
CheckLateSettle(c, outcome) ==
    /\ checks[c].pc = "done" /\ checks[c].test2 = "connecting"
    /\ checks' = [checks EXCEPT ![c].test2 = IF outcome = "connected"
                                             THEN "open" ELSE "failed"]
    /\ last' = Done("test-connect-settled", checks[c].h, <<outcome>>, NoEmit, 0, "", 0)
    /\ UNCHANGED <<liveData, liveOrder, heap, req, sweeps, users>>
    /\ UnchangedByCheck

\* ------------------------------------------------- checkLiveStatusAccurate
\* lines 1305-1312: a run starts (3 min interval, line 1295)
SweepStart(s) ==
    /\ sweeps[s].pc = "idle"
    /\ served.sweeps < MaxSweepRuns
    /\ served' = [served EXCEPT !.sweeps = @ + 1]
    /\ IF liveOrder = <<>>
       THEN /\ UNCHANGED sweeps
            /\ last' = Done("sweep", NoHandle, <<>>, NoEmit, 0, "empty", 0)
       ELSE /\ sweeps' = [sweeps EXCEPT ![s] = [IdleSweep EXCEPT !.pc = "next"]]
            /\ last' = Done("sweep", NoHandle, <<>>, NoEmit, 0, "start", 0)
    /\ UNCHANGED <<connections, orphans, connectionQueue, liveData, liveOrder, heap,
                   users, req, restoreRows, drainPending, postCheck, clock>>
    /\ UNCHANGED <<admittedBy, checks>>

\* line 1314: the iterator of liveData yields the next entry, and the probes of
\* lines 1320-1321 are started with a reference to its userData object
SweepNext(s) ==
    LET pos == sweeps[s].pos
        h == liveOrder[pos + 1]
    IN  /\ sweeps[s].pc = "next"
        /\ IF pos < Len(liveOrder)
           THEN /\ sweeps' = [sweeps EXCEPT ![s] =
                                [pc |-> "probing", pos |-> pos + 1, h |-> h,
                                 obj |-> liveData[h]]]
                /\ last' = Done("sweep", h, <<>>, NoEmit, 0, "probe", 0)
           ELSE /\ sweeps' = [sweeps EXCEPT ![s] = IdleSweep]
                /\ last' = Done("sweep", NoHandle, <<>>, NoEmit, 0, "end", 0)
        /\ UNCHANGED <<connections, orphans, connectionQueue, liveData, liveOrder, heap,
                       users, req, restoreRows, drainPending, postCheck, clock>>
        /\ UNCHANGED <<served, admittedBy, checks>>

\* lines 1317-1342: alternativeResult.finalResult is always set, so isLive is
\* never null after line 1323 and the fallbacks of lines 1331-1342 do not run
ResolvedIsLive(direct, scraping) == checkLiveWithAlternatives(direct, scraping)

\* lines 1344-1399: resumes from the probes and applies the result.  The write
\* of saveUserToDatabase (line 1355) is evaluated here.
SweepApplyStored(s, direct, scraping, ok) ==
    LET h == sweeps[s].h
        o == sweeps[s].obj
        isLive == ResolvedIsLive(direct, scraping)
        previousStatus == heap[o].isLive
        hp == [heap EXCEPT ![o].isLive = isLive, ![o].lastUpdate = clock]
        sw == [sweeps EXCEPT ![s].pc = "next", ![s].h = NoHandle, ![s].obj = NoObj]
        reconnect == connections[h] = "none"
                        /\ Size(connections) < MAX_CONCURRENT_CONNECTIONS
    IN  /\ sweeps[s].pc = "probing"
        /\ IF isLive # previousStatus
           THEN /\ Mem(LdSet(liveData, h, o), OrderSet(liveOrder, h), hp, req, sw)
                /\ users' = SaveOutcome(users, h, hp[o], ok)
                /\ IF isLive
                   THEN /\ connections' = IF reconnect
                                          THEN connectToTikTokLive(connections, h)
                                          ELSE connections
                        /\ admittedBy' = IF reconnect
                                         THEN [admittedBy EXCEPT ![h] = "sweep"]
                                         ELSE admittedBy
                        /\ last' = Done("sweep-apply", h, ArgOf(<<direct, scraping>>, ok),
                                        EmitsAfterSave(ok,
                                            {"user-connected", "live-status-change:online",
                                             "live-data-update"}),
                                        IF reconnect THEN 1 ELSE 0, "online", 0)
                        /\ UNCHANGED drainPending
                   ELSE /\ connections' = [connections EXCEPT ![h] = "none"]
                        /\ admittedBy' = [admittedBy EXCEPT ![h] = "none"]
                        /\ drainPending' = TRUE
                        /\ last' = Done("sweep-apply", h, ArgOf(<<direct, scraping>>, ok),
                                        EmitsAfterSave(ok,
                                            {"user-disconnected", "live-status-change:offline",
                                             "live-data-update"}), 0, "offline", 0)
           ELSE /\ ok
                /\ Mem(liveData, liveOrder, heap, req, sw)
                /\ last' = Done("sweep-apply", h, <<direct, scraping>>, NoEmit, 0, "same", 0)
                /\ UNCHANGED <<connections, users, drainPending, admittedBy>>
        /\ UNCHANGED <<orphans, connectionQueue, restoreRows, postCheck, clock>>
        /\ UNCHANGED <<served, checks>>

\* the step of the periodic check when the durable store accepts the write
SweepApply(s, direct, scraping) == SweepApplyStored(s, direct, scraping, TRUE)

\* ---------------------------------------------------- restoreExistingUsers
\* user.last_live_check of a stored row: a time before the process started
StoredTime == 0

\* lines 116-153: one row of the SELECT of lines 106-112
RestoreStep ==
    LET r == Head(restoreRows)
        h == r.username
        o == Fresh
        ud == [isLive |-> r.is_live, totalComments |-> r.total_comments,
               totalGifts |-> r.total_gifts, totalDiamonds |-> r.total_diamonds,
               recentComments |-> <<>>, recentGifts |-> <<>>,
               lastUpdate |-> StoredTime]
    IN  /\ restoreRows # <<>>
        /\ restoreRows' = Tail(restoreRows)
        /\ Mem(LdSet(liveData, h, o), OrderSet(liveOrder, h), [heap EXCEPT ![o] = ud],
               req, sweeps)
        /\ IF r.status = "monitoring" /\ Size(connections) < MAX_CONCURRENT_CONNECTIONS
           THEN /\ connections' = connectToTikTokLive(connections, h)
                /\ orphans' = OrphansAfterConnect(orphans, connections, h)
                /\ admittedBy' = [admittedBy EXCEPT ![h] = "restore"]
                /\ last' = Done("restore", h, <<>>, NoEmit, 1, "monitoring", 0)
                /\ UNCHANGED <<connectionQueue, users>>
           ELSE /\ connectionQueue' = Append(connectionQueue, h)
                /\ users' = UpdateStatus(users, h, "waiting")
                /\ last' = Done("restore", h, <<>>, NoEmit, 0, "waiting", 0)
                /\ UNCHANGED <<connections, orphans, admittedBy>>
        /\ UNCHANGED <<drainPending, postCheck, clock>>
        /\ UNCHANGED <<served, checks>>

\* ------------------------------------------------------------ specifications
\* a row of the SELECT of restoreExistingUsers
StoredRow(h, status, live, n) ==
    [username |-> h, status |-> status, is_live |-> live,
     total_diamonds |-> n, total_gifts |-> n, total_comments |-> n]

TableOf(rows) ==
    [h \in Handles |->
        IF \E i \in 1..Len(rows) : rows[i].username = h
        THEN LET r == rows[CHOOSE i \in 1..Len(rows) : rows[i].username = h]
             IN  [present |-> TRUE, status |-> r.status]
        ELSE NoRow]

\* the state after the module is loaded, with the stored rows in added_at order
InitWith(rows) ==
    /\ connections = [h \in Handles |-> "none"]
    /\ orphans = [h \in Handles |-> {}]
    /\ connectionQueue = <<>>
    /\ liveData = [h \in Handles |-> NoObj]
    /\ liveOrder = <<>>
    /\ heap = [o \in ObjIds |-> Blank]
    /\ users = TableOf(rows)
    /\ req = [i \in ReqIds |-> IdleReq]
    /\ sweeps = [s \in SweepIds |-> IdleSweep]
    /\ restoreRows = rows
    /\ drainPending = FALSE
    /\ postCheck = {}
    /\ clock = 0
    /\ served = [requests |-> 0, sweeps |-> 0]
    /\ admittedBy = [h \in Handles |-> "none"]
    /\ checks = [c \in CheckIds |-> IdleCheck]
    /\ last = Done("init", NoHandle, <<>>, NoEmit, 0, "", 0)

StoredTables ==
    { <<StoredRow("a", "waiting", FALSE, 0), StoredRow("b", "waiting", FALSE, 0),
        StoredRow("c", "waiting", FALSE, 0)>>,
      <<StoredRow("a", "monitoring", TRUE, 1), StoredRow("b", "monitoring", FALSE, 0)>> }

\* the requests of the HTTP layer for the usernames H
Http(H) ==
    \/ \E h \in H : AddUserBegin(h)
    \/ \E i \in ReqIds : AddUserInsert(i)
    \/ \E i \in ReqIds : AddUserQueue(i)
    \/ \E i \in ReqIds, d \in ProbeResults, sc \in ProbeResults : AddUserProbed(i, d, sc)
    \/ \E h \in H : RemoveUserBegin(h)
    \/ \E i \in ReqIds : RemoveUserFinish(i)

Csv(H) ==
    \/ \E h \in H : CsvBegin(h)
    \/ \E i \in ReqIds : CsvRow(i)
    \/ \E i \in ReqIds : CsvQueue(i)

Drain == \E t \in BOOLEAN : processConnectionQueue(t)

Connect ==
    \/ \E h \in Handles, src \in Sources : ConnectSuccess(h, src)
    \/ \E h \in Handles, src \in Sources : ConnectFail(h, src)

Stream ==
    \/ \E h \in Handles, src \in Sources : StreamDisconnected(h, src)
    \/ \E h \in Handles, r \in ProbeResults : PostConnectCheck(h, r)

\* the periodic check, its runs taken from S
SweepOf(S) ==
    \/ \E s \in S : SweepStart(s)
    \/ \E s \in S : SweepNext(s)
    \/ \E s \in S, d \in ProbeResults, sc \in ProbeResults : SweepApply(s, d, sc)

\* one run at a time
Sweep == SweepOf(OneRun)

\* values of data.giftDetails.diamond_count and data.repeatCount (0: missing or 0)
DiamondCounts == {0, 5}
RepeatCounts == {0, 2}

Events(H, DC, RC) ==
    \/ \E h \in H, src \in Sources : Comment(h, src)
    \/ \E h \in H, src \in Sources, dc \in DC, rc \in RC : Gift(h, src, dc, rc)
    \/ Tick

\* the server with an empty table: requests, queue runs, connection callbacks
Init == InitWith(<<>>)

Next == Http(Handles) \/ Csv(Handles) \/ Drain \/ Connect \/ Stream

Spec == Init /\ [][Next]_vars

\* the server started on a stored table: restore, sweeps, queue runs, callbacks
InitStored == \E rows \in StoredTables : InitWith(rows)

NextStored == RestoreStep \/ Sweep \/ Drain \/ Connect \/ Stream

SpecStored == InitStored /\ [][NextStored]_vars

\* one stored account with its stream of comments and gifts
InitEvents == InitWith(<<StoredRow("a", "monitoring", TRUE, 1)>>)

NextEvents == RestoreStep \/ Events({"a"}, {5}, {0}) \/ Connect \/ Stream \/ Sweep

SpecEvents == InitEvents /\ [][NextEvents]_vars

\* the server with an empty table, where a pending setTimeout of
\* processConnectionQueue (lines 188-190, 1025-1027, 1391-1393) fires
SpecTimers == Spec /\ WF_vars(processConnectionQueue(TRUE))

\* one connected username and every kind of gift event, a few gifts long
MaxGifts == 4

NextGifts ==
    \/ RestoreStep
    \/ Connect
    \/ Tick
    \/ \E src \in Sources, dc \in DiamondCounts, rc \in RepeatCounts :
          /\ Current("a").totalGifts < MaxGifts
          /\ Gift("a", src, dc, rc)

SpecGifts == InitEvents /\ [][NextGifts]_vars

\* the server started on a stored table while no account starts or stops
\* broadcasting: a probe answers the real status or fails, connect() resolves
\* for an account that is broadcasting and is rejected for one that is not,
\* no stream ends, and the periodic check runs once the restore is done
BroadcastStatus == [h \in Handles |-> IF h = "a" THEN "live" ELSE "offline"]
Answers(h) == {BroadcastStatus[h], "unknown"}

NextSteady ==
    \/ RestoreStep
    \/ Drain
    \/ \E h \in Handles, src \in Sources :
          BroadcastStatus[h] = "live" /\ ConnectSuccess(h, src)
    \/ \E h \in Handles, src \in Sources :
          BroadcastStatus[h] = "offline" /\ ConnectFail(h, src)
    \/ \E h \in Handles : \E r \in Answers(h) : PostConnectCheck(h, r)
    \/ \E s \in OneRun : Serving /\ SweepStart(s)
    \/ \E s \in OneRun : SweepNext(s)
    \/ \E s \in OneRun :
          /\ sweeps[s].pc = "probing"
          /\ \E d \in Answers(sweeps[s].h), sc \in Answers(sweeps[s].h) :
                SweepApply(s, d, sc)

SpecSteady == InitStored /\ [][NextSteady]_vars

\* the server started on a stored table with its timers and connection
\* connect() outcomes only (no stream ends): the 30 s interval of
\* processConnectionQueue (line 201) keeps firing, every connect() settles and
\* the restore runs to its end
QueueTables ==
    StoredTables \cup
    { <<StoredRow("a", "monitoring", TRUE, 1), StoredRow("b", "waiting", FALSE, 0),
        StoredRow("c", "waiting", FALSE, 0)>>,
      <<StoredRow("a", "waiting", FALSE, 0), StoredRow("b", "monitoring", TRUE, 1),
        StoredRow("c", "monitoring", TRUE, 1)>> }

InitQueue == \E rows \in QueueTables : InitWith(rows)

NextQueue == RestoreStep \/ Drain \/ Connect

SpecQueue ==
    /\ InitQueue /\ [][NextQueue]_vars
    /\ WF_vars(RestoreStep)
    /\ WF_vars(processConnectionQueue(FALSE))
    /\ WF_vars(Connect)


\* one stored account, its connection, and requests to /api/check-user-detailed
\* whose test connections settle and whose timers fire
CheckDetailed(H) ==
    \/ \E h \in H : CheckBegin(h)
    \/ \E c \in CheckIds, o \in {"connected"} \cup ConnectErrors : CheckBasicDone(c, o)
    \/ \E c \in CheckIds : CheckAccurateConnected(c)
    \/ \E c \in CheckIds : CheckAccurateReturn(c)
    \/ \E c \in CheckIds, m \in ConnectErrors \cup {TimeoutError} : CheckAccurateError(c, m)
    \/ \E c \in CheckIds, o \in {"connected"} \cup ConnectErrors : CheckLateSettle(c, o)

NextProbes == RestoreStep \/ Connect \/ CheckDetailed({"a", "b"})

SpecProbes == InitEvents /\ [][NextProbes]_vars /\ WF_vars(CheckDetailed({"a", "b"}))

\* one stored account with comments, gifts and the periodic check, where the
\* durable store may fail any write of saveUserToDatabase
NextWrites ==
    \/ RestoreStep
    \/ Connect
    \/ \E src \in Sources, ok \in BOOLEAN :
          /\ Current("a").totalComments + Current("a").totalGifts < MaxGifts
          /\ \/ CommentStored("a", src, ok)
             \/ GiftStored("a", src, 5, 0, ok)
    \/ \E s \in OneRun : SweepStart(s)
    \/ \E s \in OneRun : SweepNext(s)
    \/ \E s \in OneRun, d \in ProbeResults, sc \in ProbeResults, ok \in BOOLEAN :
          SweepApplyStored(s, d, sc, ok)

SpecWrites == InitEvents /\ [][NextWrites]_vars

\* -------------------------------------------------------------- properties
\* the isLive recorded for a username (FALSE when liveData has no entry)
IsLiveOf(h) == liveData[h] # NoObj /\ heap[liveData[h]].isLive
InPool(h) == connections[h] # "none"
LastOf(q) == q[Len(q)]

\* C1: in every reachable state the number of usernames in the connection pool
\* is at most MAX_CONCURRENT_CONNECTIONS.
C1_PoolWithinLimit == Size(connections) <= MAX_CONCURRENT_CONNECTIONS

\* C2: when the connect() of a tracked username is rejected, the username is
\* the last entry of the wait queue and its stored status is waiting.
C2_FailedAdmissionQueued ==
    (last.op = "connect-fail" /\ last.arg = <<"map">> /\ users[last.h].present) =>
        /\ connectionQueue # <<>>
        /\ LastOf(connectionQueue) = last.h
        /\ users[last.h].status = "waiting"

\* C3: a track request (add-user, or a row of a CSV file) that finds
\* connections.size >= MAX_CONCURRENT_CONNECTIONS at its limit check opens no
\* connection, appends the username to the tail of the wait queue and leaves
\* the row of the username (if an untrack has not deleted it meanwhile) with
\* status waiting; add-user answers waiting with the queue position, which is
\* the length of the queue after the append.
C3_AddAtLimit(i) ==
    LET h == req[i].h
    IN  /\ (req[i].op = "add" /\ req[i].pc = "selected" /\ req'[i].pc # req[i].pc
              /\ ~users[h].present
              /\ Size(connections) >= MAX_CONCURRENT_CONNECTIONS)
            => /\ req'[i].pc = "waiting"
               /\ connections' = connections
               /\ last'.opens = 0
        /\ (req[i].op = "add" /\ req[i].pc = "waiting" /\ req'[i].pc # req[i].pc)
            => /\ connections' = connections
               /\ last'.opens = 0
               /\ connectionQueue' = Append(connectionQueue, h)
               /\ users'[h].present => users'[h].status = "waiting"
               /\ last'.res = "waiting"
               /\ last'.pos = Len(connectionQueue')
        /\ (req[i].op = "csv" /\ req[i].pc = "selected" /\ req'[i].pc # req[i].pc
              /\ Size(connections) >= MAX_CONCURRENT_CONNECTIONS)
            => /\ req'[i].pc = "inserting"
               /\ connections' = connections
               /\ last'.opens = 0
        /\ (req[i].op = "csv" /\ req[i].pc = "inserting" /\ req'[i].pc # req[i].pc
              /\ ~users[h].present)
            => /\ connections' = connections
               /\ last'.opens = 0
               /\ connectionQueue' = Append(connectionQueue, h)
               /\ users'[h].status = "waiting"
               /\ last'.res = "waiting"

C3_TrackAtLimitQueues == [][\A i \in ReqIds : C3_AddAtLimit(i)]_vars

C3_Witness ==
    /\ last.op = "add-user" /\ last.res = "waiting"
    /\ Size(connections) >= MAX_CONCURRENT_CONNECTIONS
    /\ LastOf(connectionQueue) = last.h
    /\ users[last.h].status = "waiting"
    /\ last.pos = Len(connectionQueue)

\* C6: an untrack of a username in the pool, with the pool at the limit and the
\* wait queue not empty, deletes the connection (one slot fewer in use) and
\* schedules a queue run; a queue run that finds a free slot and a non-empty
\* queue takes the head of the queue, puts it in the pool, removes it from the
\* queue and sets its stored status to monitoring.
C6_Step ==
    /\ (last'.op = "remove-user" /\ last'.res = "removed" /\ InPool(last'.h)
          /\ Size(connections) = MAX_CONCURRENT_CONNECTIONS /\ connectionQueue # <<>>)
        => /\ connections'[last'.h] = "none"
           /\ Size(connections') = Size(connections) - 1
           /\ drainPending'
    /\ (last'.op = "drain" /\ connectionQueue # <<>>
          /\ Size(connections) < MAX_CONCURRENT_CONNECTIONS)
        => /\ last'.res = "connected"
           /\ last'.h = Head(connectionQueue)
           /\ connections'[Head(connectionQueue)] # "none"
           /\ connectionQueue' = Tail(connectionQueue)
           /\ users[Head(connectionQueue)].present
                => users'[Head(connectionQueue)].status = "monitoring"

C6_UntrackPromotesHead == [][C6_Step]_vars

\* the state an untrack leaves when it ran with the pool at the limit and a
\* username waiting: the slot is free, the queue run is scheduled and the head
\* of the queue is still waiting
C6_Witness ==
    /\ last.op = "remove-user" /\ last.res = "removed"
    /\ Size(connections) = MAX_CONCURRENT_CONNECTIONS - 1
    /\ connectionQueue # <<>>
    /\ ~InSeq(connectionQueue, last.h)
    /\ users[Head(connectionQueue)].status = "waiting"
    /\ drainPending

\* C4: a step of the periodic check whose two probes both end without an answer
\* leaves the recorded isLive of the username, its connection and the
\* notifications as they were.
C4_Step ==
    (last'.op = "sweep-apply" /\ last'.arg = <<"unknown", "unknown">>)
        => /\ last'.res = "same"
           /\ last'.emits = NoEmit
           /\ connections' = connections
           /\ (liveData'[last'.h] # NoObj /\ heap'[liveData'[last'.h]].isLive)
                = IsLiveOf(last'.h)

C4_UnknownChangesNothing == [][C4_Step]_vars

\* C5: a step of the periodic check that resolves offline for a username whose
\* liveData entry has isLive = TRUE leaves the entry with isLive = FALSE and the
\* username out of the pool, emits the offline live-status-change and schedules
\* a queue run.
C5_Step ==
    (last'.op = "sweep-apply" /\ IsLiveOf(last'.h)
       /\ ~ResolvedIsLive(last'.arg[1], last'.arg[2]))
        => /\ liveData'[last'.h] # NoObj
           /\ ~heap'[liveData'[last'.h]].isLive
           /\ connections'[last'.h] = "none"
           /\ "live-status-change:offline" \in last'.emits
           /\ "live-status-change:online" \notin last'.emits
           /\ drainPending'

C5_OfflineTransition == [][C5_Step]_vars

\* C7: when the connect() of a username taken from the wait queue is rejected,
\* the username is appended to the queue behind the entries that were waiting
\* and is no longer in the pool.
C7_Step ==
    (last'.op = "connect-fail" /\ last'.arg = <<"map">>
       /\ admittedBy[last'.h] = "queue")
        => /\ connectionQueue' = Append(connectionQueue, last'.h)
           /\ connections'[last'.h] = "none"

C7_FailedDrainRequeuesAtTail == [][C7_Step]_vars

\* C8: one run of processConnectionQueue removes at most one entry, the head,
\* from the queue and calls connectToTikTokLive at most once, and only when it
\* found a free slot and a non-empty queue; it promotes nothing else and leaves
\* the next promotion to the run it schedules.
C8_Step ==
    last'.op = "drain"
        => /\ connectionQueue' = connectionQueue
                \/ connectionQueue' = Tail(connectionQueue)
           /\ last'.opens <= 1
           /\ last'.opens = 1 <=> connectionQueue' # connectionQueue
           /\ connectionQueue' # connectionQueue
                => /\ Size(connections) < MAX_CONCURRENT_CONNECTIONS
                   /\ ActiveSet(connections')
                        = ActiveSet(connections) \cup {Head(connectionQueue)}
                   /\ drainPending'
           /\ connectionQueue' = connectionQueue => connections' = connections

C9_Step ==
    \A h \in Handles :
        (liveData[h] # NoObj /\ liveData'[h] # NoObj)
            => /\ heap'[liveData'[h]].totalComments >= heap[liveData[h]].totalComments
               /\ heap'[liveData'[h]].totalGifts >= heap[liveData[h]].totalGifts
               /\ heap'[liveData'[h]].totalDiamonds >= heap[liveData[h]].totalDiamonds

C9_CountersNeverDecrease == [][C9_Step]_vars

\* the list holds at most RecentLimit entries, none newer than the one before it
NewestFirst(list) ==
    /\ Len(list) <= RecentLimit
    /\ \A k \in 1..(Len(list) - 1) : list[k].timestamp >= list[k + 1].timestamp

\* the list after an event: the entry of this instant, then the previous
\* entries in their order, cut after RecentLimit entries
Pushed(old, new, now) ==
    /\ Len(new) = Min(Len(old) + 1, RecentLimit)
    /\ new[1].timestamp = now
    /\ \A k \in 2..Len(new) : new[k] = old[k - 1]

RecentListsInOrder ==
    \A h \in Handles :
        liveData[h] # NoObj
            => /\ NewestFirst(heap[liveData[h]].recentComments)
               /\ NewestFirst(heap[liveData[h]].recentGifts)

\* C10: in every state recentComments and recentGifts of every username hold at
\* most 10 entries, newest first; a comment or gift event puts its entry at
\* index 0 in front of the previous entries and drops what lies beyond 10.
C10_Step ==
    /\ RecentListsInOrder
    /\ RecentListsInOrder'
    /\ last'.op = "comment"
        => /\ Pushed(Current(last'.h).recentComments,
                     heap'[liveData'[last'.h]].recentComments, clock)
           /\ heap'[liveData'[last'.h]].recentGifts = Current(last'.h).recentGifts
    /\ last'.op = "gift"
        => /\ Pushed(Current(last'.h).recentGifts,
                     heap'[liveData'[last'.h]].recentGifts, clock)
           /\ heap'[liveData'[last'.h]].recentComments = Current(last'.h).recentComments

C10_RecentListsBounded == [][C10_Step]_vars

\* the eleventh comment of a stream: ten entries are kept, the newest in front
C10_Witness ==
    /\ last.op = "comment"
    /\ liveData[last.h] # NoObj
    /\ heap[liveData[last.h]].totalComments = RecentLimit + 1
    /\ Len(heap[liveData[last.h]].recentComments) = RecentLimit
    /\ heap[liveData[last.h]].recentComments[1].timestamp = 1
    /\ heap[liveData[last.h]].recentComments[RecentLimit].timestamp = 0

\* C11: a gift event adds exactly its diamond value (diamond_count, else
\* repeatCount, else 1) to totalDiamonds and 1 to totalGifts of the username
\* and puts its entry, carrying that value, in front of recentGifts; so n
\* gifts add the sum of their values and n, and the entries are newest first.
C11_Step ==
    last'.op = "gift"
        => LET h == last'.h
               dc == last'.arg[2]
               rc == last'.arg[3]
               v == IF dc # 0 THEN dc ELSE IF rc # 0 THEN rc ELSE 1
               before == Current(h)
               after == heap'[liveData'[h]]
           IN  /\ liveData'[h] # NoObj
               /\ after.totalDiamonds = before.totalDiamonds + v
               /\ after.totalGifts = before.totalGifts + 1
               /\ after.totalComments = before.totalComments
               /\ after.recentGifts[1].diamonds = v
               /\ Pushed(before.recentGifts, after.recentGifts, clock)

C11_GiftsAddTheirValue == [][C11_Step]_vars

\* two gifts of 5 diamonds after the connect: 10 diamonds, 2 gifts, both entries
C11_Witness ==
    /\ last.op = "gift"
    /\ liveData["a"] # NoObj
    /\ heap[liveData["a"]].totalDiamonds = 10
    /\ heap[liveData["a"]].totalGifts = 2
    /\ Len(heap[liveData["a"]].recentGifts) = 2
    /\ heap[liveData["a"]].recentGifts[1].diamonds = 5
    /\ heap[liveData["a"]].recentGifts[2].diamonds = 5
    /\ heap[liveData["a"]].recentGifts[1].timestamp
         > heap[liveData["a"]].recentGifts[2].timestamp

\* C12: while no account starts or stops broadcasting, the second of two runs
\* of the periodic check changes nothing: none of its steps changes a recorded
\* isLive, adds or removes a connection or emits a notification.
C12_Step ==
    (last'.op = "sweep-apply" /\ served.sweeps = 2)
        => /\ last'.res = "same"
           /\ last'.emits = NoEmit
           /\ connections' = connections
           /\ (liveData'[last'.h] # NoObj /\ heap'[liveData'[last'.h]].isLive)
                = IsLiveOf(last'.h)

C12_SecondRunChangesNothing == [][C12_Step]_vars

\* the LiveState recorded for a username: its userData, if liveData has an entry
StateOf(ld, hp, h) == IF ld[h] = NoObj THEN <<>> ELSE <<hp[ld[h]]>>

\* C13: a track request that fails because the username is already tracked
\* (found by the duplicate check, or by the INSERT when two requests for the
\* same new username overlap) leaves the LiveState, the connection, the queue
\* and the row of the username as they were.
C13_Step ==
    (last'.op = "add-user" /\ last'.res \in {"AlreadyTracked", "error"})
        => /\ StateOf(liveData', heap', last'.h) = StateOf(liveData, heap, last'.h)
           /\ connections' = connections
           /\ connectionQueue' = connectionQueue
           /\ users' = users

C13_RejectedTrackChangesNothing == [][C13_Step]_vars

\* C14: an untrack of a username that has no row answers NotFound and leaves
\* the connections, the wait queue and liveData as they were, and schedules no
\* queue run.
C14_Step ==
    (last'.op = "remove-user" /\ last'.res = "NotFound")
        => /\ connections' = connections
           /\ orphans' = orphans
           /\ connectionQueue' = connectionQueue
           /\ liveData' = liveData
           /\ liveOrder' = liveOrder
           /\ heap' = heap
           /\ users' = users
           /\ drainPending' = drainPending

C14_UnknownUntrackChangesNothing == [][C14_Step]_vars

\* NotFound was answered while a username is connected, another is waiting and
\* no queue run is scheduled
C14_Witness ==
    /\ last.op = "remove-user" /\ last.res = "NotFound"
    /\ ~users[last.h].present
    /\ Size(connections) = MAX_CONCURRENT_CONNECTIONS
    /\ connectionQueue # <<>>
    /\ ~drainPending

\* C15: when an untrack has answered, no connection object of the username is
\* left open (neither the one in the Map nor one that was overwritten there),
\* and the username is in neither connections, connectionQueue nor liveData.
C15_Step ==
    (last'.op = "remove-user" /\ last'.res = "removed")
        => /\ connections'[last'.h] = "none"
           /\ orphans'[last'.h] = {}
           /\ ~InSeq(connectionQueue', last'.h)
           /\ liveData'[last'.h] = NoObj

C15_UntrackRemovesEverything == [][C15_Step]_vars

\* C16: every untrack that has answered is followed, sooner or later, by a run
\* of processConnectionQueue started by a timer.
C16_UntrackLeadsToQueueRun ==
    (last.op = "remove-user" /\ last.res = "removed")
        ~> (last.op = "drain" /\ last.arg = <<TRUE>>)

\* a queue run started by a timer has run after an untrack and found nothing
\* to do; no timer is left
C16_Witness ==
    /\ last.op = "drain" /\ last.arg = <<TRUE>> /\ last.res = "skip"
    /\ ~drainPending
    /\ served.requests >= 2
    /\ \E h \in Handles : ~users[h].present /\ liveData[h] = NoObj /\ ~InPool(h)

\* C17: the liveData entry of a username that has a row is removed by nothing
\* but an untrack of that username.
C17_Step ==
    \A h \in Handles :
        (users[h].present /\ liveData[h] # NoObj /\ liveData'[h] = NoObj)
            => (last'.op = "remove-user" /\ last'.h = h)

C17_OnlyUntrackRemovesLiveState == [][C17_Step]_vars

\* C18: when the connection of a username in the pool reports 'disconnected',
\* the recorded isLive of the username becomes FALSE, the username leaves
\* connections and a queue run is scheduled.
C18_Step ==
    (last'.op = "disconnected" /\ last'.arg = <<"map">>)
        => /\ ~(liveData'[last'.h] # NoObj /\ heap'[liveData'[last'.h]].isLive)
           /\ connections'[last'.h] = "none"
           /\ drainPending'

C18_StreamEndReleasesSlot == [][C18_Step]_vars

\* C19: in every state a username whose recorded isLive is TRUE is in
\* connections or, failing that, waits in connectionQueue for a connection: no
\* username is recorded as live with neither.
C19_LiveHasSlotOrWaits ==
    \A h \in Handles : IsLiveOf(h) => (InPool(h) \/ InSeq(connectionQueue, h))

\* C20: a queue run or a run of the periodic check gives a connection to a
\* username only if no other username is waiting in front of it: while the
\* queue is not empty, the username that enters connections is its head.
C20_Step ==
    \A h \in Handles :
        (last'.op \in {"drain", "sweep-apply"}
           /\ connections[h] = "none" /\ connections'[h] # "none"
           /\ connectionQueue # <<>>)
            => h = Head(connectionQueue)

C20_AdmissionIsFifo == [][C20_Step]_vars

\* a slot is free of streams: fewer than MAX_CONCURRENT_CONNECTIONS usernames
\* have a connection that is connecting or open
StreamsBelowLimit ==
    Cardinality({h \in Handles : connections[h] \in {"connecting", "open"}})
        < MAX_CONCURRENT_CONNECTIONS

\* C21: with the interval of processConnectionQueue firing for ever, if again
\* and again a slot is free of streams, then every username in the wait queue
\* is sooner or later taken from the queue by a run and connected, also when
\* the connect() of a username in front of it is rejected.
C21_QueuedIsAttempted ==
    \A h \in Handles :
        ([]<>StreamsBelowLimit)
            => (InSeq(connectionQueue, h) ~> (last.op = "drain" /\ last.h = h))

\* C22: a step of the periodic check that resolves live for a username whose
\* liveData entry has isLive = FALSE leaves the entry with isLive = TRUE, emits
\* the online live-status-change (and not the offline one), and calls
\* connectToTikTokLive exactly when the username has no connection in the Map
\* and connections.size is below the limit.
C22_Step ==
    (last'.op = "sweep-apply" /\ liveData[last'.h] # NoObj /\ ~IsLiveOf(last'.h)
       /\ ResolvedIsLive(last'.arg[1], last'.arg[2]))
        => /\ liveData'[last'.h] # NoObj
           /\ heap'[liveData'[last'.h]].isLive
           /\ "live-status-change:online" \in last'.emits
           /\ "live-status-change:offline" \notin last'.emits
           /\ last'.opens = 1
                <=> (~InPool(last'.h) /\ Size(connections) < MAX_CONCURRENT_CONNECTIONS)
           /\ last'.opens = 1 => connections' = [connections EXCEPT ![last'.h] = "connecting"]
           /\ last'.opens = 0 => connections' = connections

C22_OnlineTransition == [][C22_Step]_vars

\* the first answer, in the order direct API then web scraping, that is not
\* "unknown"
FirstKnown(direct, scraping) == IF direct # "unknown" THEN direct ELSE scraping

\* the isLive a step of the periodic check has applied to the userData it held
AppliedIsLive(s) ==
    IF last'.res = "online" THEN TRUE
    ELSE IF last'.res = "offline" THEN FALSE
    ELSE heap[sweeps[s].obj].isLive

\* C23: the status a step of the periodic check applies is the first answer of
\* its probes, in priority order, that is not unknown: an offline answer of the
\* direct API is final and a live answer of the web scraping behind it does
\* not change it.
C23_Step ==
    \A s \in SweepIds :
        (sweeps[s].pc = "probing" /\ last'.op = "sweep-apply" /\ sweeps'[s].pc = "next")
            => /\ FirstKnown(last'.arg[1], last'.arg[2]) = "live" => AppliedIsLive(s)
               /\ FirstKnown(last'.arg[1], last'.arg[2]) = "offline" => ~AppliedIsLive(s)

C23_FirstKnownAnswerWins == [][C23_Step]_vars

\* C24: a run of checkSingleUserLiveStatusAccurate whose connect() is overtaken
\* by the 10 s timer returns null (unknown), not false (offline), and leaves
\* the recorded isLive of the username as it was.
C24_Step ==
    \A c \in CheckIds :
        (checks[c].pc = "race" /\ checks'[c].pc = "done"
           /\ last'.op = "check-user-detailed" /\ last'.arg = <<TimeoutError>>)
            => /\ checks'[c].accurate = "unknown"
               /\ (liveData'[last'.h] # NoObj /\ heap'[liveData'[last'.h]].isLive)
                    = IsLiveOf(last'.h)

C24_TimeoutIsUnknown == [][C24_Step]_vars

\* C25: a test connection of a probe that is open is closed sooner or later,
\* also the one whose connect() resolves after the timer has ended the probe.
C25_TestConnectionsClosed ==
    \A c \in CheckIds :
        /\ (checks[c].test1 = "open") ~> (checks[c].test1 = "closed")
        /\ (checks[c].test2 = "open") ~> (checks[c].test2 = "closed")

\* the step was a comment, a gift or a step of the periodic check whose durable
\* write failed
WriteFailed(l) ==
    \/ l.op = "comment" /\ Len(l.arg) = 2
    \/ l.op = "gift" /\ Len(l.arg) = 4
    \/ l.op = "sweep-apply" /\ Len(l.arg) = 3

\* C26: a comment, a gift or a status change of the periodic check whose write
\* to the durable store fails leaves the table as it was, keeps the change of
\* the userData in liveData (the new counters and lists, the new isLive), and
\* the handler goes on as after a successful write: it emits its events.
C26_Step ==
    WriteFailed(last')
        => LET h == last'.h
               after == heap'[liveData'[h]]
           IN  /\ users' = users
               /\ liveData'[h] # NoObj
               /\ last'.op = "comment"
                    => /\ after = ApplyComment(Current(h), clock)
                       /\ last'.emits = {"new-comment", "live-data-update"}
               /\ last'.op = "gift"
                    => /\ after = ApplyGift(Current(h), last'.arg[2], last'.arg[3], clock)
                       /\ last'.emits = {"new-gift", "live-data-update"}
               /\ last'.op = "sweep-apply"
                    => /\ after.isLive = ResolvedIsLive(last'.arg[1], last'.arg[2])
                       /\ "live-data-update" \in last'.emits
                       /\ after.isLive => "live-status-change:online" \in last'.emits
                       /\ ~after.isLive => "live-status-change:offline" \in last'.emits

C26_FailedWriteKeepsState == [][C26_Step]_vars

\* a gift whose write failed has been applied as the second event of a stream
C26_Witness ==
    /\ WriteFailed(last) /\ last.op = "gift"
    /\ liveData[last.h] # NoObj
    /\ heap[liveData[last.h]].totalComments = 1
    /\ heap[liveData[last.h]].totalGifts = 1
    /\ heap[liveData[last.h]].totalDiamonds = 5
    /\ Len(heap[liveData[last.h]].recentGifts) = 1

\* C27: a step of the periodic check writes its result into the userData that
\* liveData holds at that moment: whatever the connect callback and the comment
\* and gift handlers have recorded for the username while the probes were
\* awaited (counters, recent lists) is still there after the step; only isLive
\* and lastUpdate may differ.
C27_Step ==
    (last'.op = "sweep-apply" /\ liveData[last'.h] # NoObj)
        => /\ liveData'[last'.h] # NoObj
           /\ [heap'[liveData'[last'.h]] EXCEPT !.isLive = FALSE, !.lastUpdate = 0]
                = [heap[liveData[last'.h]] EXCEPT !.isLive = FALSE, !.lastUpdate = 0]

C27_SweepKeepsNewerUpdates == [][C27_Step]_vars

\* C28: when the connect() of the connection stored for a username is
\* rejected, the username is no longer in connections, and connections.size is
\* what it was before connectToTikTokLive was called for it: one less than
\* with the attempt pending.
C28_Step ==
    (last'.op = "connect-fail" /\ last'.arg = <<"map">>)
        => /\ connections'[last'.h] = "none"
           /\ Size(connections') = Size(connections) - 1

C28_FailedOpenHoldsNoSlot == [][C28_Step]_vars

\* C29: after the 'disconnected' event of the connection of a username, or an
\* offline transition of the periodic check for a username that had a
\* connection, a username that has a row is in exactly one of connections and
\* connectionQueue: when it has lost its connection it waits in the queue.
C29_Step ==
    LET h == last'.h
    IN  (/\ \/ last'.op = "disconnected" /\ last'.arg = <<"map">>
            \/ last'.op = "sweep-apply" /\ last'.res = "offline"
         /\ connections[h] # "none"
         /\ users'[h].present)
            => (connections'[h] # "none") # InSeq(connectionQueue', h)

C29_LostSlotMeansQueued == [][C29_Step]_vars

\* an admission is in progress: the restore has rows left, a request is
\* suspended at an await, or a connect() has not settled
AdmissionInProgress ==
    \/ ~Serving
    \/ \E i \in ReqIds : req[i].op # "idle"
    \/ \E h \in Handles : connections[h] = "connecting" \/ "connecting" \in orphans[h]

\* C30: whenever no admission is in progress, the status column of every
\* username that has a row is waiting if the username is in connectionQueue
\* and monitoring if it is not.
C30_StatusMatchesQueue ==
    ~AdmissionInProgress
        => \A h \in Handles :
              users[h].present
                => users[h].status = (IF InSeq(connectionQueue, h)
                                      THEN "waiting" ELSE "monitoring")

\* C31: a step of the periodic check whose resolved status equals the isLive
\* recorded in liveData for the username sets lastUpdate of that userData to
\* the time of the step and changes nothing else: isLive, the counters and the
\* recent lists, connections and connectionQueue are as before, and nothing is
\* emitted.
C31_Step ==
    (last'.op = "sweep-apply" /\ liveData[last'.h] # NoObj
       /\ ResolvedIsLive(last'.arg[1], last'.arg[2]) = heap[liveData[last'.h]].isLive)
        => /\ liveData'[last'.h] # NoObj
           /\ heap'[liveData'[last'.h]]
                = [heap[liveData[last'.h]] EXCEPT !.lastUpdate = clock]
           /\ connections' = connections
           /\ connectionQueue' = connectionQueue
           /\ last'.emits = NoEmit

C31_SameStatusOnlyHeartbeat == [][C31_Step]_vars

\* C32: a run of processConnectionQueue that finds connections.size at the
\* limit, or the wait queue empty, creates no connection and leaves
\* connections, the wait queue, liveData and every row of the table as they
\* were.
C32_Step ==
    (last'.op = "drain"
       /\ (connectionQueue = <<>> \/ Size(connections) >= MAX_CONCURRENT_CONNECTIONS))
        => /\ last'.opens = 0
           /\ last'.emits = NoEmit
           /\ connections' = connections
           /\ orphans' = orphans
           /\ connectionQueue' = connectionQueue
           /\ users' = users
           /\ liveData' = liveData
           /\ heap' = heap

C32_IdleRunChangesNothing == [][C32_Step]_vars

\* a run has returned with the pool at the limit and a username still waiting
C32_Witness ==
    /\ last.op = "drain" /\ last.res = "skip"
    /\ Size(connections) >= MAX_CONCURRENT_CONNECTIONS
    /\ connectionQueue # <<>>
    /\ users[Head(connectionQueue)].status = "waiting"

\* the place of a username in the order of the stored rows (ORDER BY added_at):
\* every stored table lists its rows in the order of HandleSeq
AddOrder(h) == CHOOSE i \in 1..Len(HandleSeq) : HandleSeq[i] = h

InAddOrder(q) ==
    \A i \in 1..Len(q) : \A j \in 1..Len(q) : i < j => AddOrder(q[i]) < AddOrder(q[j])

\* C33: when restoreExistingUsers has processed its last row, every username
\* with a row has a liveData entry and is in exactly one of connections and
\* connectionQueue, connections.size is at most MAX_CONCURRENT_CONNECTIONS,
\* and the queue holds its usernames in the order of the stored rows.
C33_RestoreComplete ==
    (last.op = "restore" /\ restoreRows = <<>>)
        => /\ \A h \in Handles :
                 users[h].present
                    => /\ liveData[h] # NoObj
                       /\ InPool(h) # InSeq(connectionQueue, h)
           /\ Size(connections) <= MAX_CONCURRENT_CONNECTIONS
           /\ InAddOrder(connectionQueue)

\* C34: in every state no username is in connectionQueue and in connections at
\* once: a username that gets a connection has left the queue, and a username
\* put back in the queue holds no entry of connections.
C34_QueuedHoldsNoSlot ==
    \A h \in Handles : ~(InPool(h) /\ InSeq(connectionQueue, h))

\* C35: in every state the only connection object of a username that is
\* connecting or open is the one held in connections: no object that was
\* overwritten in the Map, or removed from it, is still alive.
C35_OneStreamPerHandle ==
    \A h \in Handles : orphans[h] = {}

\* C36: in every state a username that is in connections or in connectionQueue
\* has a liveData entry and a row in the users table, so that an untrack of it
\* is not answered with NotFound and releases its slot.
C36_SlotHolderIsTracked ==
    \A h \in Handles :
        (InPool(h) \/ InSeq(connectionQueue, h))
            => (liveData[h] # NoObj /\ users[h].present)

\* the server started on one stored username that is then removed with
\* /api/remove-user while the periodic check runs; no username is added.  The
\* restore runs to its end, every connect() settles and every probe answers.
UntrackTables ==
    {<<StoredRow("a", "monitoring", TRUE, 1)>>, <<StoredRow("a", "waiting", FALSE, 0)>>}

InitUntrack == \E rows \in UntrackTables : InitWith(rows)

Untrack ==
    \/ \E h \in {"a"} : RemoveUserBegin(h)
    \/ \E i \in ReqIds : RemoveUserFinish(i)

NextUntrack == RestoreStep \/ Sweep \/ Untrack \/ Drain \/ Connect

SpecUntrack ==
    /\ InitUntrack /\ [][NextUntrack]_vars
    /\ WF_vars(RestoreStep)
    /\ WF_vars(Connect)
    /\ WF_vars(\E s \in OneRun : SweepNext(s))

\* /api/remove-user has answered for h
Untracked(h) == last.op = "remove-user" /\ last.res = "removed" /\ last.h = h

Absent(h) == liveData[h] = NoObj /\ ~InPool(h) /\ ~InSeq(connectionQueue, h)

\* C37: once an untrack of a username has answered, the username stays out of
\* liveData, connections and connectionQueue for as long as it is not added
\* again (no username is added in SpecUntrack, so from then on): no step of a
\* periodic check, queue run or connection callback that was under way brings
\* it back.
C37_UntrackedStaysAbsent ==
    \A h \in Handles : [](Untracked(h) => []Absent(h))

\* the server started on two stored usernames, one connected and one waiting,
\* whose streams may end.  The restore runs to its end, the periodic check and
\* the queue runs keep taking their steps and every connect() settles.
ReadmitTables ==
    {<<StoredRow("a", "monitoring", TRUE, 1), StoredRow("b", "waiting", FALSE, 0)>>}

InitReadmit == \E rows \in ReadmitTables : InitWith(rows)

StreamEnds == \E h \in Handles, src \in Sources : StreamDisconnected(h, src)

NextReadmit == RestoreStep \/ Sweep \/ Drain \/ Connect \/ StreamEnds

SpecReadmit ==
    /\ InitReadmit /\ [][NextReadmit]_vars
    /\ WF_vars(RestoreStep)
    /\ WF_vars(Sweep)
    /\ WF_vars(Drain)
    /\ WF_vars(Connect)

\* the periodic check has just recorded h as live and opened no connection,
\* because connections is at the limit without h
DetectedAtCap(h) ==
    /\ last.op = "sweep-apply" /\ last.h = h /\ last.res = "online" /\ last.opens = 0
    /\ ~InPool(h)
    /\ Size(connections) >= MAX_CONCURRENT_CONNECTIONS

SlotFree == Size(connections) < MAX_CONCURRENT_CONNECTIONS

Admitted(h) == connections[h] \in {"connecting", "open"}

\* C38: when the periodic check finds a username live while connections is at
\* the limit, and afterwards slots keep becoming free, the username gets a
\* connection sooner or later, unless it is recorded as not live again.
C38_LiveAtCapIsAdmitted ==
    \A h \in Handles :
        ([]<>SlotFree) => (DetectedAtCap(h) ~> (Admitted(h) \/ ~IsLiveOf(h)))

\* the server started on one stored username that holds the only slot, with
\* requests to add and to remove usernames
NextRetrack == RestoreStep \/ Http({"a", "c"}) \/ Drain \/ Connect

SpecRetrack == InitEvents /\ [][NextRetrack]_vars

\* C39: in every state connectionQueue holds each username at most once.
C39_QueueHasNoDuplicates ==
    \A i \in 1..Len(connectionQueue) : \A j \in 1..Len(connectionQueue) :
        connectionQueue[i] = connectionQueue[j] => i = j

\* the server started on one stored username, where a run of the periodic
\* check may start while the run before it is still under way (a run takes
\* longer than the 3 min interval when its probes are slow)
NextOverlap == RestoreStep \/ SweepOf(SweepIds) \/ Drain \/ Connect \/ StreamEnds

SpecOverlap == InitUntrack /\ [][NextOverlap]_vars

\* the status a step of the periodic check has just applied as a change
AppliedChange(l) == l.op = "sweep-apply" /\ l.res \in {"online", "offline"}

\* C40: when a run of the periodic check has applied a change of status of a
\* username, and the next step is another run resolving the same status for the
\* same username, that step applies nothing: no notification is sent, no
\* connection is opened or closed and no queue run is scheduled.
C40_Step ==
    (/\ AppliedChange(last)
     /\ last'.op = "sweep-apply" /\ last'.h = last.h
     /\ ResolvedIsLive(last'.arg[1], last'.arg[2]) = (last.res = "online"))
        => /\ last'.res = "same"
           /\ last'.emits = NoEmit
           /\ last'.opens = 0
           /\ connections' = connections
           /\ drainPending' = drainPending

C40_OverlappingRunsApplyOnce == [][C40_Step]_vars

====
